---- MODULE Spec2Model ----
(***************************************************************************)
(* State-machine model of the RAG front end (React pages Compare, Query,   *)
(* Docs, Versions, Upload) and of the version store / query engine they    *)
(* talk to.  Each page is one record variable whose fields are the page's  *)
(* useState cells; every handler is one action.  An await is a split       *)
(* point: the part before the fetch is one action, the continuation that   *)
(* runs when the response arrives is another.                              *)
(***************************************************************************)
EXTENDS Integers, Sequences, FiniteSets, Bags, TLC

VARIABLES
    compare, compareNet,    \* Compare page: its state cells, its pending fetches
    query, queryNet,        \* Query page
    docs, docsNet,          \* Docs page
    docsIntervals,          \* Docs page: the job ids whose setInterval timer runs
    docsJobs,               \* backend: the documentation jobs, by job id
    versions, versionsNet,  \* Versions page
    serverVersions,         \* backend: the versions GET /api/versions lists
    upload, uploadNet,      \* Upload page
    registry, indexes,      \* Version Store: version records, index per version id
    clock,                  \* backend: the current ingestion timestamp
    creates, created,       \* createVersion calls under way; calls accepted so far
    deleted,                \* Version Store: what the last delete call returned
    engine,                 \* Query Engine: the request being answered
    comparison,             \* Query Engine: what the last compare call returned
    ingest, scratch,        \* Archive Ingestor: the run under way, its scratch area
    runs                    \* Archive Ingestor: the runs that ended

compareVars == <<compare, compareNet>>

queryVars == <<query, queryNet>>

docsVars == <<docs, docsNet, docsIntervals, docsJobs>>

versionsVars == <<versions, versionsNet, serverVersions>>

uploadVars == <<upload, uploadNet>>

storeVars ==
    <<registry, indexes, clock, creates, created, deleted, engine, comparison>>

ingestVars == <<ingest, scratch, runs>>

vars ==
    <<compareVars, queryVars, docsVars, versionsVars, uploadVars, storeVars,
      ingestVars>>

nonCompare == <<queryVars, docsVars, versionsVars, uploadVars, storeVars,
    ingestVars>>

nonQuery == <<compareVars, docsVars, versionsVars, uploadVars, storeVars,
    ingestVars>>

nonDocs == <<compareVars, queryVars, versionsVars, uploadVars, storeVars,
    ingestVars>>

nonVersions == <<compareVars, queryVars, docsVars, uploadVars, storeVars,
    ingestVars>>

nonUpload == <<compareVars, queryVars, docsVars, versionsVars, storeVars,
    ingestVars>>

nonStore == <<compareVars, queryVars, docsVars, versionsVars, uploadVars,
    ingestVars>>

nonIngest == <<compareVars, queryVars, docsVars, versionsVars, uploadVars,
    storeVars>>

(***************************************************************************)
(* Bounds of the model.                                                    *)
(***************************************************************************)
\* documentation jobs submitted in one run
MaxDocsJobs == 2

\* progress responses of the Docs page not yet handled
MaxDocsInFlight == 2

\* requests of the Versions page not yet settled
MaxVersionsInFlight == 2

\* createVersion calls in one run
MaxCreates == 2

\* the last ingestion timestamp of a run
MaxClock == 2

\* ingestion runs in one run of the model
MaxRuns == 2

\* the configured maximum chunk size, and the overlap of two windows
ChunkSize == 3

ChunkOverlap == 1

(***************************************************************************)
(* Strings are sequences of one-character strings.                         *)
(***************************************************************************)
\* JavaScript null, and a message (error / success text) held in a state cell
null == [null |-> TRUE]

Str(s) == [text |-> s]

\* null in a cell that otherwise holds a string of characters
nullString == <<"null">>

Range(s) == {s[i] : i \in 1..Len(s)}

\* String.prototype.toLowerCase, on the characters the model uses
LowerChar(c) == IF c = "A" THEN "a" ELSE IF c = "B" THEN "b" ELSE c

toLowerCase(s) == [i \in 1..Len(s) |-> LowerChar(s[i])]

\* String.prototype.includes: sub occurs in s as a contiguous substring
includes(s, sub) ==
    \E i \in 0..(Len(s) - Len(sub)) :
        \A j \in 1..Len(sub) : s[i + j] = sub[j]

\* Array.prototype.join(',')
RECURSIVE join(_)
join(ids) ==
    IF ids = <<>> THEN <<>>
    ELSE IF Len(ids) = 1 THEN ids[1]
    ELSE ids[1] \o <<",">> \o join(Tail(ids))

\* the backend's reading of a comma-separated parameter: split on ','
RECURSIVE splitAcc(_, _)
splitAcc(s, cur) ==
    IF s = <<>> THEN <<cur>>
    ELSE IF Head(s) = "," THEN <<cur>> \o splitAcc(Tail(s), <<>>)
    ELSE splitAcc(Tail(s), cur \o <<Head(s)>>)

split(s) == splitAcc(s, <<>>)

(***************************************************************************)
(* The versions the backend may list.  Ids have the documented shape       *)
(* name-timestamp; they contain no comma.                                  *)
(***************************************************************************)
V1 == [version_id |-> <<"a", "-", "1">>, version_name |-> <<"a">>]
V2 == [version_id |-> <<"b", "-", "2">>, version_name |-> <<"B">>]

\* a response of GET /api/versions (newest first)
VersionLists == {<<>>, <<V1>>, <<V2, V1>>}

\* what the user may type in a search box, and in a question box
SearchTerms == {<<>>, <<"B">>, <<"z">>}

Questions == {<<>>, <<" ">>, <<"q">>}

\* main.tsx renders the pages inside React.StrictMode: a production build
\* runs a mount effect once, a development build runs it twice
MountEffectRuns == {1, 2}

\* String.prototype.trim
RECURSIVE trimStart(_)
trimStart(s) == IF s # <<>> /\ Head(s) = " " THEN trimStart(Tail(s)) ELSE s

RECURSIVE trimEnd(_)
trimEnd(s) ==
    IF s # <<>> /\ s[Len(s)] = " " THEN trimEnd(SubSeq(s, 1, Len(s) - 1)) ELSE s

trim(s) == trimEnd(trimStart(s))

(***************************************************************************)
(* JavaScript number arithmetic on highlightedIndex: x % 0 is NaN, NaN     *)
(* propagates through + and -, and every comparison with NaN is false.     *)
(***************************************************************************)
NaN == -1000

jsAdd(a, b) == IF a = NaN \/ b = NaN THEN NaN ELSE a + b

jsMod(a, n) == IF a = NaN \/ n = NaN \/ n = 0 THEN NaN ELSE a % n

jsLe(a, b) == a # NaN /\ b # NaN /\ a <= b

jsGe(a, b) == a # NaN /\ b # NaN /\ a >= b

jsLt(a, b) == a # NaN /\ b # NaN /\ a < b

jsGt(a, b) == a # NaN /\ b # NaN /\ a > b

(***************************************************************************)
(* Compare page                                                            *)
(***************************************************************************)
CompareInitN(n) ==
    /\ compare = [versions |-> <<>>, selectedVersions |-> <<>>,
                  searchTerm |-> <<>>, isDropdownOpen |-> FALSE,
                  q |-> <<>>, result |-> null, loading |-> FALSE,
                  versionsLoading |-> TRUE, error |-> null,
                  success |-> null, highlightedIndex |-> -1]
    /\ compareNet = [i \in 1..n |-> [url |-> "/api/versions"]]

\* the page once mounted: the mount effect has called loadVersions
CompareInit == \E n \in MountEffectRuns : CompareInitN(n)

CompareMatches(version) ==
    \/ includes(toLowerCase(version.version_name), toLowerCase(compare.searchTerm))
    \/ includes(toLowerCase(version.version_id), toLowerCase(compare.searchTerm))

CompareFilteredVersions == SelectSeq(compare.versions, CompareMatches)

CompareShowSuggestions ==
    Len(compare.searchTerm) > 0 /\ Len(CompareFilteredVersions) > 0

\* what a failed request reports: json.detail of a non-OK response, or the
\* message of the exception thrown by fetch / res.json()
Details == {"Internal server error"}

FetchErrors == {"Failed to fetch"}

\* Array.prototype.includes on a list of ids
idIncludes(ids, versionId) == \E i \in 1..Len(ids) : ids[i] = versionId

\* toggled without the includes test: the id is appended every time
toggledAlwaysAppend(prev, versionId) == Append(prev, versionId)

\* prev => prev.includes(id) ? prev.filter(x => x !== id) : [...prev, id]
toggled(prev, versionId) ==
    LET Other(id) == id # versionId
    IN  IF idIncludes(prev, versionId) THEN SelectSeq(prev, Other)
        ELSE Append(prev, versionId)

toggleVersionSelection(versionId) ==
    compare' = [compare EXCEPT !.selectedVersions = toggled(@, versionId)]

\* a click on one row of the dropdown
CompareClickOption ==
    /\ compare.isDropdownOpen \/ CompareShowSuggestions
    /\ \E i \in 1..Len(CompareFilteredVersions) :
           toggleVersionSelection(CompareFilteredVersions[i].version_id)
    /\ UNCHANGED <<compareNet, nonCompare>>

\* a remove that takes the ids before the given one along
removeVersionAndEarlier ==
    /\ \E i \in 1..Len(compare.selectedVersions) :
           compare' = [compare EXCEPT !.selectedVersions =
               SubSeq(@, i + 1, Len(@))]
    /\ UNCHANGED <<compareNet, nonCompare>>

\* the X of a selected version: prev => prev.filter(id => id !== versionId)
removeVersion ==
    /\ \E i \in 1..Len(compare.selectedVersions) :
           LET versionId == compare.selectedVersions[i]
               Other(id) == id # versionId
           IN  compare' = [compare EXCEPT !.selectedVersions = SelectSeq(@, Other)]
    /\ UNCHANGED <<compareNet, nonCompare>>

clearSelection ==
    /\ Len(compare.selectedVersions) > 0
    /\ compare' = [compare EXCEPT !.selectedVersions = <<>>]
    /\ UNCHANGED <<compareNet, nonCompare>>

CompareToggleDropdown ==
    /\ compare' = [compare EXCEPT !.isDropdownOpen = ~@]
    /\ UNCHANGED <<compareNet, nonCompare>>

CompareSetQ ==
    /\ \E text \in Questions :
           /\ text # compare.q
           /\ compare' = [compare EXCEPT !.q = text]
    /\ UNCHANGED <<compareNet, nonCompare>>

CompareHandleSearchChange ==
    /\ \E value \in SearchTerms :
           /\ value # compare.searchTerm
           /\ compare' = [compare EXCEPT
                  !.searchTerm = value,
                  !.highlightedIndex = -1,
                  !.isDropdownOpen = IF Len(value) > 0 THEN TRUE ELSE @]
    /\ UNCHANGED <<compareNet, nonCompare>>

CompareKeyGuard == compare.isDropdownOpen \/ CompareShowSuggestions

CompareArrowDown ==
    /\ CompareKeyGuard
    /\ compare' = [compare EXCEPT !.highlightedIndex =
           jsMod(jsAdd(@, 1), Len(CompareFilteredVersions))]
    /\ UNCHANGED <<compareNet, nonCompare>>

CompareArrowUp ==
    /\ CompareKeyGuard
    /\ compare' = [compare EXCEPT !.highlightedIndex =
           IF jsLe(@, 0) THEN Len(CompareFilteredVersions) - 1 ELSE jsAdd(@, -1)]
    /\ UNCHANGED <<compareNet, nonCompare>>

CompareEnter ==
    /\ CompareKeyGuard
    /\ IF /\ jsGe(compare.highlightedIndex, 0)
          /\ jsLt(compare.highlightedIndex, Len(CompareFilteredVersions))
       THEN toggleVersionSelection(
                CompareFilteredVersions[compare.highlightedIndex + 1].version_id)
       ELSE UNCHANGED compare
    /\ UNCHANGED <<compareNet, nonCompare>>

CompareEscape ==
    /\ CompareKeyGuard
    /\ compare' = [compare EXCEPT !.isDropdownOpen = FALSE, !.highlightedIndex = -1]
    /\ UNCHANGED <<compareNet, nonCompare>>

Remove(seq, idx) == SubSeq(seq, 1, idx - 1) \o SubSeq(seq, idx + 1, Len(seq))

\* loadVersions up to its await (the mount effect, or the Refresh button,
\* which is disabled while versionsLoading)
loadVersions ==
    /\ ~compare.versionsLoading
    /\ compare' = [compare EXCEPT !.versionsLoading = TRUE, !.error = null]
    /\ compareNet' = Append(compareNet, [url |-> "/api/versions"])
    /\ UNCHANGED nonCompare

\* loadVersions after its await
loadVersionsSettle ==
    \E i \in 1..Len(compareNet) :
        /\ compareNet[i].url = "/api/versions"
        /\ compareNet' = Remove(compareNet, i)
        /\ \/ \E list \in VersionLists :
                 compare' = [compare EXCEPT
                     !.versions = list,
                     !.success = Str("Versions loaded successfully"),
                     !.versionsLoading = FALSE]
           \/ \E msg \in Details \cup FetchErrors :
                 compare' = [compare EXCEPT
                     !.error = Str("Failed to load versions: " \o msg),
                     !.versionsLoading = FALSE]
        /\ UNCHANGED nonCompare

\* the Compare button's disabled attribute
CompareButtonDisabled ==
    \/ trim(compare.q) = <<>>
    \/ Len(compare.selectedVersions) < 2
    \/ compare.loading

\* submit called with fewer than two selected versions: the early return
\* (the button is disabled then, so this is submit called by other means)
CompareSubmitTooFew ==
    /\ Len(compare.selectedVersions) < 2
    /\ compare' = [compare EXCEPT
           !.error = Str("Please select at least 2 versions to compare")]
    /\ UNCHANGED <<compareNet, nonCompare>>

\* a click on the enabled Compare button: submit up to its await
CompareSubmit ==
    /\ ~CompareButtonDisabled
    /\ ~(Len(compare.selectedVersions) < 2)
    /\ compare' = [compare EXCEPT !.loading = TRUE, !.error = null, !.result = null]
    /\ compareNet' = Append(compareNet,
           [url |-> "/api/query_compare", q |-> compare.q,
            version_ids |-> join(compare.selectedVersions)])
    /\ UNCHANGED nonCompare

\* submit after its await
CompareSubmitSettle ==
    \E i \in 1..Len(compareNet) :
        /\ compareNet[i].url = "/api/query_compare"
        /\ compareNet' = Remove(compareNet, i)
        /\ \/ compare' = [compare EXCEPT
                  !.result = [total_versions |-> Len(split(compareNet[i].version_ids))],
                  !.success = Str("Comparison completed successfully!"),
                  !.loading = FALSE]
           \/ \E msg \in Details \cup FetchErrors :
                 compare' = [compare EXCEPT
                     !.error = Str("Comparison failed: " \o msg),
                     !.loading = FALSE]
        /\ UNCHANGED nonCompare

NextCompare ==
    \/ CompareClickOption
    \/ removeVersion
    \/ clearSelection
    \/ CompareToggleDropdown
    \/ CompareSetQ
    \/ CompareHandleSearchChange
    \/ CompareArrowDown
    \/ CompareArrowUp
    \/ CompareEnter
    \/ CompareEscape
    \/ loadVersions
    \/ loadVersionsSettle
    \/ CompareSubmitTooFew
    \/ CompareSubmit
    \/ CompareSubmitSettle

(***************************************************************************)
(* Query page                                                              *)
(***************************************************************************)
\* the question length the backend accepts (q: 1-1000 characters)
MaxQueryLen == 1000

\* what the user may type in the question box of the Query page
QueryTexts == {<<>>, <<"q">>, [i \in 1..(MaxQueryLen + 1) |-> "q"]}

\* an array read past its end
undefined == [undefined |-> TRUE]

at(seq, i) == IF i \in 1..Len(seq) THEN seq[i] ELSE undefined

\* JavaScript truthiness of a version object, null or undefined
truthy(version) == version # null /\ version # undefined

QueryInitN(n) ==
    /\ query = [q |-> <<>>, versionId |-> <<>>, versions |-> <<>>,
                selectedVersion |-> null, isVersionDropdownOpen |-> FALSE,
                versionSearchTerm |-> <<>>, highlightedIndex |-> -1,
                answer |-> "", sources |-> <<>>, versionInfo |-> null,
                loading |-> FALSE, loadingVersions |-> TRUE,
                error |-> null, success |-> null]
    /\ queryNet = [i \in 1..n |-> [url |-> "/api/versions"]]

\* the page once mounted: the mount effect has called fetchVersions
QueryInit == \E n \in MountEffectRuns : QueryInitN(n)

\* fetchVersions after its await
fetchVersionsSettle ==
    \E i \in 1..Len(queryNet) :
        /\ queryNet[i].url = "/api/versions"
        /\ queryNet' = Remove(queryNet, i)
        /\ \/ \E list \in VersionLists :
                 query' = [query EXCEPT !.versions = list, !.loadingVersions = FALSE]
           \/ query' = [query EXCEPT !.loadingVersions = FALSE]
        /\ UNCHANGED nonQuery

QueryMatches(version) ==
    \/ includes(toLowerCase(version.version_name), toLowerCase(query.versionSearchTerm))
    \/ includes(toLowerCase(version.version_id), toLowerCase(query.versionSearchTerm))

QueryFilteredVersions == SelectSeq(query.versions, QueryMatches)

QueryShowSuggestions ==
    Len(query.versionSearchTerm) > 0 /\ Len(QueryFilteredVersions) > 0

\* selectVersion that leaves versionId as it was
versionIdOfStale(version) == query.versionId

\* version ? version.version_id : ''
versionIdOf(version) == IF truthy(version) THEN version.version_id ELSE <<>>

selectVersion(version) ==
    query' = [query EXCEPT
        !.selectedVersion = version,
        !.versionId = versionIdOf(version),
        !.isVersionDropdownOpen = FALSE,
        !.versionSearchTerm = <<>>]

\* the dropdown list is rendered
QueryDropdownShown ==
    /\ query.isVersionDropdownOpen \/ QueryShowSuggestions
    /\ ~query.loadingVersions

\* a click on the "Latest version" row
QueryClickLatest ==
    /\ QueryDropdownShown
    /\ selectVersion(null)
    /\ UNCHANGED <<queryNet, nonQuery>>

\* a click on the row of one version
QueryClickOption ==
    /\ QueryDropdownShown
    /\ \E i \in 1..Len(QueryFilteredVersions) :
           selectVersion(QueryFilteredVersions[i])
    /\ UNCHANGED <<queryNet, nonQuery>>

QueryToggleDropdown ==
    /\ query' = [query EXCEPT !.isVersionDropdownOpen = ~@]
    /\ UNCHANGED <<queryNet, nonQuery>>

\* the search input is disabled while the versions load
QueryHandleSearchChange ==
    /\ ~query.loadingVersions
    /\ \E value \in SearchTerms :
           /\ value # query.versionSearchTerm
           /\ query' = [query EXCEPT
                  !.versionSearchTerm = value,
                  !.highlightedIndex = -1,
                  !.isVersionDropdownOpen = IF Len(value) > 0 THEN TRUE ELSE @]
    /\ UNCHANGED <<queryNet, nonQuery>>

QueryKeyGuard ==
    /\ ~query.loadingVersions
    /\ query.isVersionDropdownOpen \/ QueryShowSuggestions

\* +1 for the "Latest version" option
QueryTotalOptions == Len(QueryFilteredVersions) + 1

QueryArrowDown ==
    /\ QueryKeyGuard
    /\ query' = [query EXCEPT !.highlightedIndex =
           jsMod(jsAdd(@, 1), QueryTotalOptions)]
    /\ UNCHANGED <<queryNet, nonQuery>>

QueryArrowUp ==
    /\ QueryKeyGuard
    /\ query' = [query EXCEPT !.highlightedIndex =
           IF jsLe(@, 0) THEN QueryTotalOptions - 1 ELSE jsAdd(@, -1)]
    /\ UNCHANGED <<queryNet, nonQuery>>

QueryEnter ==
    /\ QueryKeyGuard
    /\ IF query.highlightedIndex = 0 THEN selectVersion(null)
       ELSE IF jsGt(query.highlightedIndex, 0)
            THEN selectVersion(at(QueryFilteredVersions, query.highlightedIndex))
            ELSE UNCHANGED query
    /\ UNCHANGED <<queryNet, nonQuery>>

QueryEscape ==
    /\ QueryKeyGuard
    /\ query' = [query EXCEPT !.isVersionDropdownOpen = FALSE, !.highlightedIndex = -1]
    /\ UNCHANGED <<queryNet, nonQuery>>

\* the X button next to the selected version
clearVersion ==
    /\ truthy(query.selectedVersion)
    /\ query' = [query EXCEPT
           !.selectedVersion = null,
           !.versionId = <<>>,
           !.isVersionDropdownOpen = FALSE,
           !.versionSearchTerm = <<>>]
    /\ UNCHANGED <<queryNet, nonQuery>>

QuerySetQ ==
    /\ \E text \in QueryTexts :
           /\ text # query.q
           /\ query' = [query EXCEPT !.q = text]
    /\ UNCHANGED <<queryNet, nonQuery>>

\* new URLSearchParams({ q }); if (versionId) params.set('version_id', versionId)
QueryParams ==
    IF query.versionId # <<>>
    THEN [q |-> query.q, version_id |-> query.versionId]
    ELSE [q |-> query.q]

\* a submit that leaves the previous answer on the page
QuerySubmitKeepingAnswer ==
    /\ query' = [query EXCEPT !.loading = TRUE, !.error = null, !.success = null]
    /\ queryNet' = Append(queryNet, [url |-> "/api/query", params |-> QueryParams])
    /\ UNCHANGED nonQuery

\* submit up to its await
QuerySubmit ==
    /\ query' = [query EXCEPT
           !.loading = TRUE, !.error = null, !.success = null,
           !.answer = "", !.sources = <<>>, !.versionInfo = null]
    /\ queryNet' = Append(queryNet, [url |-> "/api/query", params |-> QueryParams])
    /\ UNCHANGED nonQuery

\* the Ask Question button: disabled={!q || loading}
QueryClickSubmit ==
    /\ ~(query.q = <<>> \/ query.loading)
    /\ QuerySubmit

\* Ctrl+Enter or Cmd+Enter in the question box: if (!loading) submit()
QueryCtrlEnter ==
    /\ ~query.loading
    /\ QuerySubmit

\* the bodies of a successful /api/query response
QueryResponses ==
    {[answer |-> "An answer", sources |-> <<"util.py">>,
      version_info |-> [version_name |-> <<"a">>]],
     [answer |-> "", sources |-> <<>>, version_info |-> null]}

\* submit after its await
QuerySubmitSettle ==
    \E i \in 1..Len(queryNet) :
        /\ queryNet[i].url = "/api/query"
        /\ queryNet' = Remove(queryNet, i)
        /\ \/ \E json \in QueryResponses :
                 query' = [query EXCEPT
                     !.answer = json.answer,
                     !.sources = json.sources,
                     !.versionInfo = json.version_info,
                     !.success = Str("Query successful!"),
                     !.loading = FALSE]
           \/ \E msg \in Details \cup FetchErrors :
                 query' = [query EXCEPT !.error = Str(msg), !.loading = FALSE]
        /\ UNCHANGED nonQuery

NextQuery ==
    \/ fetchVersionsSettle
    \/ QueryClickLatest
    \/ QueryClickOption
    \/ QueryToggleDropdown
    \/ QueryHandleSearchChange
    \/ QueryArrowDown
    \/ QueryArrowUp
    \/ QueryEnter
    \/ QueryEscape
    \/ clearVersion
    \/ QuerySetQ
    \/ QueryClickSubmit
    \/ QueryCtrlEnter
    \/ QuerySubmitSettle

(***************************************************************************)
(* Docs page                                                               *)
(***************************************************************************)
\* a field missing from a JSON body, read as a number
undefinedNumber == -2000

\* total_files of a job
DocsTotals == {0, 2}

DocsInit ==
    /\ docs = [file |-> null, result |-> null, loading |-> FALSE,
               error |-> null, success |-> null, uploadProgress |-> null]
    /\ docsNet = EmptyBag
    /\ docsIntervals = {}
    /\ docsJobs = <<>>

\* the file input and the X button of the file preview
DocsSetFile ==
    /\ \E f \in {null, [name |-> "project.zip"]} :
           /\ f # docs.file
           /\ docs' = [docs EXCEPT !.file = f]
    /\ UNCHANGED <<docsNet, docsIntervals, docsJobs, nonDocs>>

\* the request of submit
DocsPost == [url |-> "/api/generate_documentation"]

\* submit up to its await; the button is disabled={!file || loading}
DocsSubmit ==
    /\ docs.file # null
    /\ ~docs.loading
    /\ Len(docsJobs) + CopiesIn(DocsPost, docsNet) < MaxDocsJobs
    /\ docs' = [docs EXCEPT
           !.loading = TRUE, !.error = null, !.success = null,
           !.result = null, !.uploadProgress = null]
    /\ docsNet' = docsNet (+) SetToBag({DocsPost})
    /\ UNCHANGED <<docsIntervals, docsJobs, nonDocs>>

\* submit after its await: the backend has started job Len(docsJobs) + 1 and
\* the page starts its interval (pollProgress), or the old API answers with
\* the documentation itself, or the request fails
DocsSubmitSettle ==
    /\ BagIn(DocsPost, docsNet)
    /\ docsNet' = docsNet (-) SetToBag({DocsPost})
    /\ \/ \E total \in DocsTotals :
             LET job_id == Len(docsJobs) + 1
             IN  /\ docsJobs' = Append(docsJobs,
                        [total_files |-> total, completed_files |-> 0,
                         status |-> "processing"])
                 /\ docs' = [docs EXCEPT !.uploadProgress =
                        [total |-> total, completed |-> 0,
                         status |-> "processing"]]
                 /\ docsIntervals' = docsIntervals \cup {job_id}
       \/ /\ docs' = [docs EXCEPT
                 !.result = [documentation |-> "old API"],
                 !.success = Str("Documentation generated!"),
                 !.loading = FALSE]
          /\ UNCHANGED <<docsIntervals, docsJobs>>
       \/ /\ \E msg \in Details \cup FetchErrors :
                 docs' = [docs EXCEPT !.error = Str(msg), !.loading = FALSE]
          /\ UNCHANGED <<docsIntervals, docsJobs>>
    /\ UNCHANGED nonDocs

\* backend: a job documents one more file
DocsJobStep ==
    /\ \E j \in 1..Len(docsJobs) :
           /\ docsJobs[j].status = "processing"
           /\ docsJobs[j].completed_files < docsJobs[j].total_files
           /\ docsJobs' = [docsJobs EXCEPT ![j].completed_files = @ + 1]
    /\ UNCHANGED <<docs, docsNet, docsIntervals, nonDocs>>

\* backend: a job ends, with its result or with an error
DocsJobEnd ==
    /\ \E j \in 1..Len(docsJobs) :
           /\ docsJobs[j].status = "processing"
           /\ \/ /\ docsJobs[j].completed_files = docsJobs[j].total_files
                 /\ docsJobs' = [docsJobs EXCEPT ![j].status = "completed"]
              \/ docsJobs' = [docsJobs EXCEPT ![j].status = "error"]
    /\ UNCHANGED <<docs, docsNet, docsIntervals, nonDocs>>

\* the body of GET /api/documentation_progress/{job_id} for a job
DocsProgressBody(j) ==
    [total_files |-> docsJobs[j].total_files,
     completed_files |-> docsJobs[j].completed_files,
     status |-> docsJobs[j].status]

\* the body of a non-OK response: { detail }, every other field undefined
DocsNotOkBody ==
    [total_files |-> undefinedNumber, completed_files |-> undefinedNumber,
     status |-> "undefined"]

\* one firing of the interval of job j: the fetch is sent, the backend
\* answers with the job as it is, or with a non-OK status, or the fetch (or
\* res.json()) throws
DocsTick ==
    /\ BagCardinality(docsNet) < MaxDocsInFlight
    /\ \E j \in docsIntervals :
           \E outcome \in {[throws |-> FALSE, progress |-> DocsProgressBody(j)],
                           [throws |-> FALSE, progress |-> DocsNotOkBody],
                           [throws |-> TRUE, progress |-> DocsNotOkBody]} :
               docsNet' = docsNet (+) SetToBag({
                   [url |-> "/api/documentation_progress", job_id |-> j,
                    throws |-> outcome.throws, progress |-> outcome.progress]})
    /\ UNCHANGED <<docs, docsIntervals, docsJobs, nonDocs>>

\* once the interval of a job is cleared no request reads the job again:
\* the model stops following the backend's record of it
DocsJobUnread == [total_files |-> 0, completed_files |-> 0, status |-> "unread"]

\* clearInterval(interval), in the callback of job j
clearInterval(j) ==
    /\ docsIntervals' = docsIntervals \ {j}
    /\ docsJobs' = [docsJobs EXCEPT ![j] = DocsJobUnread]

\* the branch the interval callback takes once it has the body, with the
\* else-if for 'error' left out
pollBranchNoError(progress) ==
    IF progress.status = "completed" THEN "completed" ELSE "continue"

\* the branch the interval callback takes once it has the body
pollBranch(progress) ==
    IF progress.status = "completed" THEN "completed"
    ELSE IF progress.status = "error" THEN "error"
    ELSE "continue"

\* the interval callback after its await, for the pending response r
DocsPollSettleOf(r) ==
    /\ BagIn(r, docsNet)
    /\ r.url = "/api/documentation_progress"
    /\ docsNet' = docsNet (-) SetToBag({r})
    /\ LET shown == [total |-> r.progress.total_files,
                     completed |-> r.progress.completed_files,
                     status |-> r.progress.status]
       IN  IF r.throws
           THEN /\ clearInterval(r.job_id)
                /\ docs' = [docs EXCEPT
                       !.error = Str("Failed to fetch progress"),
                       !.uploadProgress = null, !.loading = FALSE]
           ELSE IF pollBranch(r.progress) = "completed"
           THEN /\ clearInterval(r.job_id)
                /\ docs' = [docs EXCEPT
                       !.result = [documentation |-> "job"],
                       !.success = Str("Documentation generated!"),
                       !.uploadProgress = null, !.loading = FALSE]
           ELSE IF pollBranch(r.progress) = "error"
           THEN /\ clearInterval(r.job_id)
                /\ docs' = [docs EXCEPT
                       !.error = Str("Documentation generation failed"),
                       !.uploadProgress = null, !.loading = FALSE]
           ELSE /\ docs' = [docs EXCEPT !.uploadProgress = shown]
                /\ UNCHANGED <<docsIntervals, docsJobs>>
    /\ UNCHANGED nonDocs

DocsPollSettle == \E r \in BagToSet(docsNet) : DocsPollSettleOf(r)

\* a positive number divided by 0
Infinity == 1000

\* the text before the % sign in the progress bar:
\* Math.round((uploadProgress.completed / uploadProgress.total) * 100)
percentage(uploadProgress) ==
    LET completed == uploadProgress.completed
        total == uploadProgress.total
    IN  IF completed \in {NaN, undefinedNumber} \/ total \in {NaN, undefinedNumber}
        THEN NaN
        ELSE IF total = 0
        THEN IF completed = 0 THEN NaN ELSE Infinity
        ELSE (200 * completed + total) \div (2 * total)

DocsJobIds == 1..MaxDocsJobs

\* the response says that job j is over: the backend reports 'completed' or
\* 'error', or the request has failed
DocsEnds(r, j) ==
    /\ r.url = "/api/documentation_progress"
    /\ r.job_id = j
    /\ r.throws \/ r.progress.status \in {"completed", "error"}

\* the callback of a response that says job j is over
DocsPollSettleEnd(j) ==
    \E r \in BagToSet(docsNet) : DocsEnds(r, j) /\ DocsPollSettleOf(r)

NextDocs ==
    \/ DocsSetFile
    \/ DocsSubmit
    \/ DocsSubmitSettle
    \/ DocsJobStep
    \/ DocsJobEnd
    \/ DocsTick
    \/ DocsPollSettle

(***************************************************************************)
(* Versions page.  The backend answers a request when it is sent; what the *)
(* network delays, and may reorder, is the response.                       *)
(***************************************************************************)
VersionsInitN(n, list) ==
    /\ versions = [versions |-> <<>>, loading |-> TRUE, error |-> null,
                   success |-> null, deletingVersionId |-> nullString,
                   confirmDeleteVersion |-> null, isDeleteOpen |-> FALSE]
    /\ serverVersions = list
    /\ versionsNet = [i \in 1..n |->
           [url |-> "/api/versions", method |-> "GET", listed |-> list,
            afterDelete |-> FALSE]]

\* the page once mounted: the mount effect has called load
VersionsInit ==
    \E n \in MountEffectRuns : \E list \in VersionLists : VersionsInitN(n, list)

\* load up to its await; afterDelete: called by handleDeleteConfirm, which
\* awaits it
VersionsLoadStart(cells, afterDelete) ==
    /\ versions' = [cells EXCEPT !.loading = TRUE, !.error = null, !.success = null]
    /\ versionsNet' = Append(versionsNet,
           [url |-> "/api/versions", method |-> "GET",
            listed |-> serverVersions', afterDelete |-> afterDelete])

\* the Refresh button, disabled while loading
VersionsRefresh ==
    /\ ~versions.loading
    /\ Len(versionsNet) < MaxVersionsInFlight
    /\ UNCHANGED serverVersions
    /\ VersionsLoadStart(versions, FALSE)
    /\ UNCHANGED nonVersions

\* load after its await, then (when handleDeleteConfirm awaited it) the
\* finally block of handleDeleteConfirm
VersionsLoadSettle ==
    \E i \in 1..Len(versionsNet) :
        /\ versionsNet[i].method = "GET"
        /\ versionsNet' = Remove(versionsNet, i)
        /\ LET r == versionsNet[i]
               deleting == IF r.afterDelete THEN nullString
                           ELSE versions.deletingVersionId
           IN  \/ versions' = [versions EXCEPT
                      !.versions = r.listed,
                      !.success = Str("Versions loaded successfully"),
                      !.loading = FALSE,
                      !.deletingVersionId = deleting]
               \/ \E msg \in Details \cup FetchErrors :
                      versions' = [versions EXCEPT
                          !.error = Str(msg),
                          !.loading = FALSE,
                          !.deletingVersionId = deleting]
        /\ UNCHANGED <<serverVersions, nonVersions>>

\* the Delete button of a version card
handleDeleteClick ==
    /\ \E i \in 1..Len(versions.versions) :
           LET version == versions.versions[i]
           IN  /\ versions.deletingVersionId # version.version_id
               /\ versions' = [versions EXCEPT
                      !.confirmDeleteVersion = version, !.isDeleteOpen = TRUE]
    /\ UNCHANGED <<versionsNet, serverVersions, nonVersions>>

\* the confirmation dialog is rendered
VersionsModalShown ==
    versions.isDeleteOpen /\ versions.confirmDeleteVersion # null

\* the X button of the dialog, or its Cancel button (disabled while the
\* version of the dialog is being deleted)
handleDeleteCancel ==
    /\ VersionsModalShown
    /\ versions' = [versions EXCEPT
           !.confirmDeleteVersion = null, !.isDeleteOpen = FALSE]
    /\ UNCHANGED <<versionsNet, serverVersions, nonVersions>>

\* the version whose id goes into the DELETE url, taken from the list
\* instead of from the dialog
versionToDeleteFirstListed ==
    IF Len(versions.versions) > 0 THEN versions.versions[1]
    ELSE versions.confirmDeleteVersion

\* the version whose id goes into the DELETE url
versionToDelete == versions.confirmDeleteVersion

\* DELETE /api/versions/{id} at the backend
ServerDelete(versionId) ==
    LET Other(version) == version.version_id # versionId
    IN  serverVersions' = SelectSeq(serverVersions, Other)

ServerHas(versionId) ==
    \E i \in 1..Len(serverVersions) : serverVersions[i].version_id = versionId

\* handleDeleteConfirm up to its await: the Delete button of the dialog
handleDeleteConfirm ==
    /\ VersionsModalShown
    /\ versions.deletingVersionId # versions.confirmDeleteVersion.version_id
    /\ Len(versionsNet) < MaxVersionsInFlight
    /\ versions' = [versions EXCEPT
           !.deletingVersionId = versions.confirmDeleteVersion.version_id,
           !.error = null, !.success = null]
    /\ \E outcome \in {"ok", "notOk", "throws"} :
           /\ outcome = "ok" => ServerHas(versionToDelete.version_id)
           /\ IF outcome = "ok" THEN ServerDelete(versionToDelete.version_id)
              ELSE UNCHANGED serverVersions
           /\ versionsNet' = Append(versionsNet,
                  [url |-> <<"/api/versions/", versionToDelete.version_id>>,
                   method |-> "DELETE", outcome |-> outcome,
                   version_name |-> versions.confirmDeleteVersion.version_name])
    /\ UNCHANGED nonVersions

\* handleDeleteConfirm after its first await: on success it closes the
\* dialog and calls load
handleDeleteConfirmSettle ==
    \E i \in 1..Len(versionsNet) :
        /\ versionsNet[i].method = "DELETE"
        /\ UNCHANGED serverVersions
        /\ LET r == versionsNet[i]
           IN  IF r.outcome = "ok"
               THEN /\ versions' = [versions EXCEPT
                           !.confirmDeleteVersion = null, !.isDeleteOpen = FALSE,
                           !.loading = TRUE, !.error = null, !.success = null]
                    /\ versionsNet' = Append(Remove(versionsNet, i),
                           [url |-> "/api/versions", method |-> "GET",
                            listed |-> serverVersions, afterDelete |-> TRUE])
               ELSE /\ versions' = [versions EXCEPT
                           !.error = Str("Failed to delete version: " \o
                               (IF r.outcome = "notOk" THEN "Version not found"
                                ELSE "Failed to fetch")),
                           !.deletingVersionId = nullString]
                    /\ versionsNet' = Remove(versionsNet, i)
        /\ UNCHANGED nonVersions

NextVersions ==
    \/ VersionsRefresh
    \/ VersionsLoadSettle
    \/ handleDeleteClick
    \/ handleDeleteCancel
    \/ handleDeleteConfirm
    \/ handleDeleteConfirmSettle

(***************************************************************************)
(* Upload page                                                             *)
(***************************************************************************)
\* the documented ceiling of an upload: 100MB
MaxUploadBytes == 104857600

\* the files the user may drop or pick
ZipSmall == [name |-> <<"a", ".", "z", "i", "p">>, size |-> 1048576]

ZipHuge == [name |-> <<"b", ".", "z", "i", "p">>, size |-> MaxUploadBytes + 1]

TextFile == [name |-> <<"c", ".", "t", "x", "t">>, size |-> 2048]

UploadFiles == {ZipSmall, ZipHuge, TextFile}

\* what the user may type as the version name
VersionNames == {<<>>, <<"r", "1">>}

\* new Date().toISOString()
IsoNow ==
    {<<"2", "0", "2", "4", "-", "0", "1", "-", "0", "1", "T",
       "1", "2", ":", "0", "0", ":", "0", "0", ".", "0", "0", "0", "Z">>}

\* String.prototype.endsWith
endsWith(s, suffix) ==
    /\ Len(s) >= Len(suffix)
    /\ SubSeq(s, Len(s) - Len(suffix) + 1, Len(s)) = suffix

\* s.slice(0, 19).replace(/[:T]/g, '-')
stamp(s) ==
    LET cut == SubSeq(s, 1, IF Len(s) < 19 THEN Len(s) ELSE 19)
    IN  [i \in 1..Len(cut) |-> IF cut[i] \in {":", "T"} THEN "-" ELSE cut[i]]

UploadInit ==
    /\ upload = [file |-> null, versionName |-> <<>>, result |-> null,
                 loading |-> FALSE, error |-> null, success |-> null,
                 dragActive |-> FALSE]
    /\ uploadNet = <<>>

\* handleDrag: dragenter and dragover set dragActive, dragleave clears it
handleDrag ==
    /\ \E type \in {"dragenter", "dragover", "dragleave"} :
           upload' = [upload EXCEPT !.dragActive =
               IF type \in {"dragenter", "dragover"} THEN TRUE ELSE FALSE]
    /\ upload' # upload
    /\ UNCHANGED <<uploadNet, nonUpload>>

\* handleDrop, with the first dropped file
handleDrop ==
    /\ \E droppedFile \in UploadFiles :
           IF endsWith(droppedFile.name, <<".", "z", "i", "p">>)
           THEN upload' = [upload EXCEPT !.dragActive = FALSE, !.file = droppedFile]
           ELSE upload' = [upload EXCEPT !.dragActive = FALSE,
                               !.error = Str("Please upload a ZIP file")]
    /\ UNCHANGED <<uploadNet, nonUpload>>

\* the hidden file input: onChange={e => setFile(e.target.files?.[0] || null)}
\* (accept=".zip" only filters what the picker offers first)
UploadPickFile ==
    /\ \E f \in UploadFiles \cup {null} :
           /\ f # upload.file
           /\ upload' = [upload EXCEPT !.file = f]
    /\ UNCHANGED <<uploadNet, nonUpload>>

\* the X button of the file preview
UploadRemoveFile ==
    /\ upload.file # null
    /\ upload' = [upload EXCEPT !.file = null]
    /\ UNCHANGED <<uploadNet, nonUpload>>

UploadSetVersionName ==
    /\ \E value \in VersionNames :
           /\ value # upload.versionName
           /\ upload' = [upload EXCEPT !.versionName = value]
    /\ UNCHANGED <<uploadNet, nonUpload>>

\* the typed name alone, with no default
formVersionNameTyped(now) == upload.versionName

\* versionName || 'v' + new Date().toISOString().slice(0,19).replace(/[:T]/g,'-')
formVersionName(now) ==
    IF upload.versionName # <<>> THEN upload.versionName ELSE <<"v">> \o stamp(now)

\* upload up to its await; the button is disabled={!file || loading}
UploadStart ==
    /\ upload.file # null
    /\ ~upload.loading
    /\ upload' = [upload EXCEPT
           !.loading = TRUE, !.error = null, !.success = null, !.result = null]
    /\ \E now \in IsoNow :
           uploadNet' = Append(uploadNet,
               [url |-> "/api/ingest_versioned", file |-> upload.file,
                version_name |-> formVersionName(now)])
    /\ UNCHANGED nonUpload

\* upload after its await
UploadSettle ==
    \E i \in 1..Len(uploadNet) :
        /\ uploadNet' = Remove(uploadNet, i)
        /\ \/ upload' = [upload EXCEPT
                  !.result = [message |-> "Version created successfully",
                              version_name |-> uploadNet[i].version_name],
                  !.success = Str("Upload successful!"),
                  !.loading = FALSE]
           \/ \E msg \in Details \cup FetchErrors :
                 upload' = [upload EXCEPT !.error = Str(msg), !.loading = FALSE]
        /\ UNCHANGED nonUpload

NextUpload ==
    \/ handleDrag
    \/ handleDrop
    \/ UploadPickFile
    \/ UploadRemoveFile
    \/ UploadSetVersionName
    \/ UploadStart
    \/ UploadSettle

(***************************************************************************)
(* Version Store and Query Engine (backend).  The registry is the ordered  *)
(* collection of Version records, keyed by version id; every version id    *)
(* names the storage of one vector index.                                  *)
(***************************************************************************)
Callers == {1, 2}

StoreNames == {<<>>, <<"a">>, <<"b">>}

\* the chunk lists an ingested archive yields
Archives == {<<"f", "g">>}

Statuses == {"active", "archived", "deleted"}

Digit(n) == IF n = 0 THEN "0" ELSE IF n = 1 THEN "1" ELSE IF n = 2 THEN "2"
            ELSE IF n = 3 THEN "3" ELSE "4"

\* the version id: derived from the version name and the ingestion timestamp
versionId(name, ts) == name \o <<"-", Digit(ts)>>

StoreInit ==
    /\ registry = <<>>
    /\ indexes = <<>>
    /\ clock = 1
    /\ creates = [c \in Callers |-> [pc |-> "idle"]]
    /\ created = 0
    /\ deleted = null
    /\ comparison = null
    /\ engine = [pc |-> "idle", requested |-> <<"null">>,
                 version_id |-> <<"null">>, searches |-> 0, completions |-> 0,
                 error |-> ""]

RegistryIds == {registry[i].version_id : i \in 1..Len(registry)}

\* the position of a version id in the registry (0: absent)
RegistryIndex(id) ==
    IF id \in RegistryIds
    THEN CHOOSE i \in 1..Len(registry) : registry[i].version_id = id
    ELSE 0

\* the ids that have index storage
IndexIds == {indexes[i].version_id : i \in 1..Len(indexes)}

\* time passes between two calls, or it does not; the timestamps count the
\* ticks that separate calls, so the clock is never ahead of the calls made
ClockTick ==
    /\ clock < MaxClock
    /\ clock <= created
    /\ clock' = clock + 1
    /\ UNCHANGED <<registry, indexes, creates, created, engine, deleted, comparison, nonStore>>

CreatesUnderWay == {c \in Callers : creates[c].pc # "idle"}

\* createVersion(name, description, tags, chunks): the name is validated
\* and the version id generated; a call takes the first free slot
CreateBegin(c) ==
    /\ creates[c].pc = "idle"
    /\ \A d \in Callers : d < c => creates[d].pc # "idle"
    /\ created < MaxCreates
    /\ \E name \in StoreNames : \E chunks \in Archives :
           IF name = <<>>
           THEN \* ValidationError: rejected immediately, no side effects
                UNCHANGED <<creates, created>>
           ELSE /\ creates' = [creates EXCEPT ![c] =
                       [pc |-> "index", name |-> name, chunks |-> chunks,
                        version_id |-> versionId(name, clock),
                        upload_timestamp |-> clock]]
                /\ created' = created + 1
    /\ UNCHANGED <<registry, indexes, clock, engine, deleted, comparison, nonStore>>

\* index creation and registry write of one version id are serialized
IdLocked(id) ==
    \E c \in Callers : creates[c].pc = "commit" /\ creates[c].version_id = id

\* VectorIndex.add: the chunks are embedded and stored under the version id
IndexAdd(id, chunks) ==
    IF id \in IndexIds
    THEN [i \in 1..Len(indexes) |->
            IF indexes[i].version_id = id
            THEN [indexes[i] EXCEPT !.chunks = @ \o chunks]
            ELSE indexes[i]]
    ELSE Append(indexes, [version_id |-> id, chunks |-> chunks])

\* createVersion: the vector index is created and fed, or cannot be persisted
CreateIndex(c) ==
    /\ creates[c].pc = "index"
    /\ ~IdLocked(creates[c].version_id)
    /\ \/ /\ indexes' = IndexAdd(creates[c].version_id, creates[c].chunks)
          /\ creates' = [creates EXCEPT ![c].pc = "commit"]
       \/ \* StorageError: the call ends, the registry update is not committed
          /\ creates' = [creates EXCEPT ![c] = [pc |-> "idle"]]
          /\ UNCHANGED indexes
    /\ UNCHANGED <<registry, clock, created, engine, deleted, comparison, nonStore>>

\* the Version record createVersion writes
VersionRecord(call) ==
    [version_id |-> call.version_id, version_name |-> call.name,
     upload_timestamp |-> call.upload_timestamp,
     chunk_count |-> Len(call.chunks), status |-> "active"]

\* the registry write: a record under a new id is appended, a record under
\* a known id replaces the one that was there
RegistryPut(record) ==
    IF record.version_id \in RegistryIds
    THEN [registry EXCEPT ![RegistryIndex(record.version_id)] = record]
    ELSE Append(registry, record)

\* createVersion: the metadata is committed and the Version returned
CreateCommit(c) ==
    /\ creates[c].pc = "commit"
    /\ registry' = RegistryPut(VersionRecord(creates[c]))
    /\ creates' = [creates EXCEPT ![c] = [pc |-> "idle"]]
    /\ UNCHANGED <<indexes, clock, created, engine, deleted, comparison, nonStore>>

\* updateStatus(versionId, newStatus): a pure metadata mutation
updateStatus ==
    /\ \E i \in 1..Len(registry) : \E newStatus \in Statuses :
           /\ registry[i].status # newStatus
           /\ registry' = [registry EXCEPT ![i].status = newStatus]
    /\ UNCHANGED <<indexes, clock, creates, created, engine, deleted, comparison, nonStore>>

\* no Version
NotFound == [error |-> "NotFound"]

\* what delete returns when it removed the Version
Deleted == [deleted |-> TRUE]

\* the version ids a caller may name: those of the registry, one that
\* createVersion may have generated and one that never was generated
StoreIds == RegistryIds \cup {versionId(<<"a">>, 1), versionId(<<"z">>, 0)}

\* delete that removes the registry entry and leaves the index storage behind
deleteRegistryOnly ==
    /\ \E id \in StoreIds :
           LET Other(x) == x.version_id # id
           IN  IF id \in RegistryIds
               THEN /\ registry' = SelectSeq(registry, Other)
                    /\ indexes' = indexes
                    /\ deleted' = Deleted
               ELSE /\ deleted' = NotFound
                    /\ UNCHANGED <<registry, indexes>>
    /\ UNCHANGED <<clock, creates, created, engine, comparison, nonStore>>

\* delete(versionId): the index storage and the registry entry are removed;
\* NotFound, and nothing removed, when the registry has no such version
delete ==
    /\ \E id \in StoreIds :
           LET Other(x) == x.version_id # id
           IN  IF id \in RegistryIds
               THEN /\ registry' = SelectSeq(registry, Other)
                    /\ indexes' = SelectSeq(indexes, Other)
                    /\ deleted' = Deleted
               ELSE /\ deleted' = NotFound
                    /\ UNCHANGED <<registry, indexes>>
    /\ UNCHANGED <<clock, creates, created, engine, comparison, nonStore>>

\* get without the test of the status
getAnyStatus(reg, id) ==
    IF \E i \in 1..Len(reg) : reg[i].version_id = id
    THEN reg[CHOOSE i \in 1..Len(reg) : reg[i].version_id = id]
    ELSE NotFound

\* get(versionId): NotFound if absent or if the status is deleted
get(reg, id) ==
    IF \E i \in 1..Len(reg) : reg[i].version_id = id /\ reg[i].status # "deleted"
    THEN reg[CHOOSE i \in 1..Len(reg) : reg[i].version_id = id]
    ELSE NotFound

\* the scan of resolveLatest, looking at the timestamp alone
RECURSIVE latestAnyStatus(_, _)
latestAnyStatus(reg, best) ==
    IF reg = <<>> THEN best
    ELSE IF best = null \/ Head(reg).upload_timestamp > best.upload_timestamp
         THEN latestAnyStatus(Tail(reg), Head(reg))
         ELSE latestAnyStatus(Tail(reg), best)

\* one pass over the registry, keeping the active record with the highest
\* upload timestamp seen so far
RECURSIVE latestActive(_, _)
latestActive(reg, best) ==
    IF reg = <<>> THEN best
    ELSE IF /\ Head(reg).status = "active"
            /\ (best = null \/ Head(reg).upload_timestamp > best.upload_timestamp)
         THEN latestActive(Tail(reg), Head(reg))
         ELSE latestActive(Tail(reg), best)

resolveLatestAnyStatus(reg) == latestAnyStatus(reg, null)

\* resolveLatest(): the highest-timestamp version with status active, or null
resolveLatest(reg) == latestActive(reg, null)

\* the version ids a query may name; the last one is never generated
EngineIds == {versionId(<<"a">>, 1), versionId(<<"z">>, 0)}

EngineIdle ==
    [pc |-> "idle", requested |-> nullString, version_id |-> nullString,
     searches |-> 0, completions |-> 0, error |-> ""]

\* query(text, versionId?) is received, once the query before it has returned
EngineBegin ==
    /\ engine.pc \in {"idle", "done", "failed"}
    /\ \E requested \in EngineIds \cup {nullString} :
           engine' = [EngineIdle EXCEPT !.pc = "resolve", !.requested = requested]
    /\ UNCHANGED <<registry, indexes, clock, creates, created, deleted, comparison, nonStore>>

\* Resolve Version
EngineResolve ==
    /\ engine.pc = "resolve"
    /\ LET version == IF engine.requested # nullString
                      THEN get(registry, engine.requested)
                      ELSE resolveLatest(registry)
       IN  IF version = NotFound
           THEN engine' = [engine EXCEPT !.pc = "failed", !.error = "NotFound"]
           ELSE IF version = null
           THEN engine' = [engine EXCEPT !.pc = "failed", !.error = "EmptyCorpus"]
           ELSE engine' = [engine EXCEPT !.pc = "retrieve",
                                         !.version_id = version.version_id]
    /\ UNCHANGED <<registry, indexes, clock, creates, created, deleted, comparison, nonStore>>

\* Retrieve: similaritySearch on the index of the resolved version
EngineRetrieve ==
    /\ engine.pc = "retrieve"
    /\ IF engine.version_id \in IndexIds
       THEN engine' = [engine EXCEPT !.pc = "generate", !.searches = @ + 1]
       ELSE engine' = [engine EXCEPT !.pc = "failed", !.searches = @ + 1,
                                     !.error = "StorageError"]
    /\ UNCHANGED <<registry, indexes, clock, creates, created, deleted, comparison, nonStore>>

\* Assemble Context and Generate: one call of the generative model, which
\* answers or fails for good
EngineGenerate ==
    /\ engine.pc = "generate"
    /\ \/ engine' = [engine EXCEPT !.pc = "done", !.completions = @ + 1]
       \/ engine' = [engine EXCEPT !.pc = "failed", !.completions = @ + 1,
                                   !.error = "GenerationFailure"]
    /\ UNCHANGED <<registry, indexes, clock, creates, created, deleted, comparison, nonStore>>

\* the version id lists a comparison is asked for
CompareIdLists ==
    {<<versionId(<<"a">>, 1)>>,
     <<versionId(<<"a">>, 1), versionId(<<"z">>, 0), versionId(<<"b">>, 1)>>}

\* the four-step pipeline run for one version of a comparison: its result,
\* or the failure captured as the error field of that version's result
compareEntry(id, generated) ==
    IF get(registry, id) = NotFound
    THEN [version_id |-> id, error |-> "NotFound"]
    ELSE IF id \notin IndexIds
    THEN [version_id |-> id, error |-> "StorageError"]
    ELSE IF ~generated
    THEN [version_id |-> id, error |-> "GenerationFailure"]
    ELSE [version_id |-> id, version_name |-> get(registry, id).version_name,
          answer |-> "An answer"]

\* a comparison that ends at the first version whose pipeline fails
compareResultsUntilFailure(ids, generated) ==
    LET all == [i \in 1..Len(ids) |-> compareEntry(ids[i], i \in generated)]
        Failed(i) == "error" \in DOMAIN all[i]
    IN  IF \E i \in 1..Len(ids) : Failed(i)
        THEN SubSeq(all, 1, (CHOOSE i \in 1..Len(ids) :
                 Failed(i) /\ \A j \in 1..(i - 1) : ~Failed(j)) - 1)
        ELSE all

\* the results of a comparison, one per version id, in the order asked
compareResults(ids, generated) ==
    [i \in 1..Len(ids) |-> compareEntry(ids[i], i \in generated)]

\* compare(text, versionIds): ValidationError for fewer than 2 version ids;
\* generated is the set of positions whose generative call answers
compareVersions ==
    /\ \E ids \in CompareIdLists : \E generated \in SUBSET (1..Len(ids)) :
           comparison' =
               IF Len(ids) < 2
               THEN [requested |-> ids, error |-> "ValidationError"]
               ELSE LET results == compareResults(ids, generated)
                    IN  [requested |-> ids, comparison_results |-> results,
                         total_versions |-> Len(results)]
    /\ UNCHANGED <<registry, indexes, clock, creates, created, deleted, engine,
                   nonStore>>

NextStore ==
    \/ ClockTick
    \/ \E c \in Callers : CreateBegin(c)
    \/ \E c \in Callers : CreateIndex(c)
    \/ \E c \in Callers : CreateCommit(c)
    \/ updateStatus
    \/ delete
    \/ EngineBegin
    \/ EngineResolve
    \/ EngineRetrieve
    \/ EngineGenerate

(***************************************************************************)
(* The Archive Ingestor with the Content Hasher and the Chunker.  An      *)
(* ingestion is a background task that suspends at the archive's           *)
(* extraction and after each file; the legacy and the versioned path share *)
(* the steps.                                                              *)
(***************************************************************************)
\* hash(bytes): the digest stands for the bytes it was computed over
hash(bytes) == [sha256 |-> bytes]

\* the uploaded archives and their entries; a file is its top-level blocks
\* with their source spans, outside marks an entry that resolves outside the
\* scratch root, broken a file whose processing raises an error
IngestArchives ==
    LET Span(kind, text) == [kind |-> kind, text |-> text]
        File(path, extension, blocks) ==
            [path |-> path, extension |-> extension, outside |-> FALSE,
             broken |-> FALSE, blocks |-> blocks]
        add == <<Span("import-block", <<"i", "m">>),
                 Span("function", <<"d", "e", "f", " ", "a">>)>>
        util == File("util.py", ".py", add)
        copy == File("copy.py", ".py", add)
        broken == [File("broken.py", ".py",
                        <<Span("function", <<"d", "e", "f", " ", "b">>)>>)
                      EXCEPT !.broken = TRUE]
        readme == File("README.md", ".md",
                       <<Span("heading-section", <<"#", "a", " ", "b", "c">>),
                         Span("heading-section", <<"#", "d">>)>>)
        app == File("app.js", ".js", <<Span("class", <<"c", "{", "x", "}">>)>>)
        notes == File("notes.txt", ".txt",
                      <<Span("paragraph", <<"a", "b", "c", "d", " ", "e">>)>>)
        tiny == File("tiny.txt", ".txt", <<Span("paragraph", <<"o", "k">>)>>)
        blank == File("blank.py", ".py", <<Span("generic-block", <<" ">>)>>)
        logo == File("logo.png", ".png", add)
        evil == [File("../evil.py", ".py", add) EXCEPT !.outside = TRUE]
    IN  {[name |-> "code", size |-> 1048576, readable |-> TRUE,
          entries |-> <<util, copy, broken, readme, logo>>],
         [name |-> "text", size |-> 2048, readable |-> TRUE,
          entries |-> <<app, notes, evil, blank, tiny>>],
         [name |-> "images", size |-> 2048, readable |-> TRUE,
          entries |-> <<logo>>],
         [name |-> "corrupt", size |-> 2048, readable |-> FALSE,
          entries |-> <<>>],
         [name |-> "huge", size |-> MaxUploadBytes + 1, readable |-> TRUE,
          entries |-> <<util>>]}

\* the raw content of a file: its blocks one after the other
RECURSIVE contentOf(_)
contentOf(blocks) ==
    IF blocks = <<>> THEN <<>> ELSE Head(blocks).text \o contentOf(Tail(blocks))

\* Fallback strategy: recursive character-window splitting; a window ends at
\* the last whitespace within the window size, or is cut hard at the size
RECURSIVE splitWindows(_, _, _)
splitWindows(text, size, overlap) ==
    IF Len(text) <= size
    THEN IF text = <<>> THEN <<>> ELSE <<text>>
    ELSE LET breaks == {i \in (overlap + 1)..size : text[i] = " "}
             cut == IF breaks = {} THEN size
                    ELSE CHOOSE i \in breaks : \A j \in breaks : j <= i
         IN  <<SubSeq(text, 1, cut)>>
                 \o splitWindows(SubSeq(text, cut + 1 - overlap, Len(text)),
                                 size, overlap)

\* Chunker: the strategy is selected by the file extension.  Structured
\* source (.py) and pattern-based (.js) emit one chunk per block with the
\* verbatim span; heading-aware (.md) splits a section over the maximum with
\* the fallback; everything else is split by the fallback
RECURSIVE chunkBlocks(_, _, _, _)
chunkBlocks(file, blocks, size, overlap) ==
    IF blocks = <<>> THEN <<>>
    ELSE LET block == Head(blocks)
             Piece(text) == [chunk_type |-> block.kind, text |-> text,
                             path |-> file.path]
             texts == IF file.extension \in {".py", ".js"}
                      THEN <<block.text>>
                      ELSE splitWindows(block.text, size, overlap)
         IN  [i \in 1..Len(texts) |-> Piece(texts[i])]
                 \o chunkBlocks(file, Tail(blocks), size, overlap)

\* chunk(file): a file below the chunk size is one generic block
chunk(file, size, overlap) ==
    IF Len(contentOf(file.blocks)) <= size
    THEN <<[chunk_type |-> "generic-block", text |-> contentOf(file.blocks),
            path |-> file.path]>>
    ELSE chunkBlocks(file, file.blocks, size, overlap)

\* what the log keeps of a run that ended
Ended(run) ==
    [mode |-> run.mode, archive |-> run.archive.name, pc |-> run.pc,
     reason |-> run.reason, seen |-> run.seen, duplicates |-> run.duplicates]

IngestInit == ingest = [pc |-> "idle"] /\ scratch = {} /\ runs = <<>>

\* ingest(archiveBytes, ...): an archive over the size ceiling is rejected
\* before extraction
IngestBegin ==
    /\ ingest.pc \in {"idle", "completed", "error", "cancelled"}
    /\ Len(runs) < MaxRuns
    /\ \E mode \in {"legacy", "versioned"} : \E archive \in IngestArchives :
           LET run == [pc |-> "extract", mode |-> mode, archive |-> archive,
                       files |-> <<>>, seen |-> {}, chunks |-> <<>>,
                       duplicates |-> {}, errors |-> {},
                       reason |-> ""]
           IN  IF archive.size > MaxUploadBytes
               THEN /\ ingest' = [run EXCEPT !.pc = "error",
                                             !.reason = "archive too large"]
                    /\ runs' = Append(runs, Ended(ingest'))
               ELSE /\ ingest' = run
                    /\ runs' = runs
    /\ UNCHANGED <<scratch, nonIngest>>

\* extraction into the scratch area; entries that resolve outside the
\* scratch root are skipped
IngestExtract ==
    /\ ingest.pc = "extract"
    /\ IF ingest.archive.readable
       THEN LET Inside(f) == ~f.outside
                files == SelectSeq(ingest.archive.entries, Inside)
            IN  /\ scratch' = {files[i].path : i \in 1..Len(files)}
                /\ ingest' = [ingest EXCEPT !.pc = "files", !.files = files]
                /\ runs' = runs
       ELSE /\ scratch' = {}
            /\ ingest' = [ingest EXCEPT !.pc = "error",
                                        !.reason = "archive unreadable"]
            /\ runs' = Append(runs, Ended(ingest'))
    /\ UNCHANGED nonIngest

\* the file a step works on is accepted when its extension is supported and
\* it does not decode to empty content
Accepted(f) ==
    /\ f.extension \in {".py", ".js", ".md", ".txt"}
    /\ trim(contentOf(f.blocks)) # <<>>

\* one file: skipped, a duplicate (legacy mode only), failed (the error is
\* recorded and the file skipped), or chunked
IngestFile ==
    /\ ingest.pc = "files"
    /\ ingest.files # <<>>
    /\ LET f == Head(ingest.files)
           digest == hash(contentOf(f.blocks))
           rest == [ingest EXCEPT !.files = Tail(@)]
       IN  IF ~Accepted(f)
           THEN ingest' = rest
           ELSE IF ingest.mode = "legacy" /\ digest \in ingest.seen
           THEN ingest' = [rest EXCEPT !.duplicates = @ \cup {f.path}]
           ELSE IF f.broken
           THEN ingest' = [rest EXCEPT !.errors = @ \cup {f.path}]
           ELSE ingest' = [rest EXCEPT
                       !.seen = @ \cup {digest},
                       !.chunks = @ \o chunk(f, ChunkSize, ChunkOverlap)]
    /\ UNCHANGED <<scratch, runs, nonIngest>>

\* the end of a run: the counts and the chunk list, or no supported files;
\* the scratch area is removed
IngestEnd ==
    /\ ingest.pc = "files"
    /\ ingest.files = <<>>
    /\ ingest' =
           IF \E i \in 1..Len(ingest.archive.entries) :
                  ~ingest.archive.entries[i].outside
                      /\ Accepted(ingest.archive.entries[i])
           THEN [ingest EXCEPT !.pc = "completed"]
           ELSE [ingest EXCEPT !.pc = "error",
                               !.reason = "no supported files found"]
    /\ scratch' = {}
    /\ runs' = Append(runs, Ended(ingest'))
    /\ UNCHANGED nonIngest

\* a cancellation that forgets the scratch area
IngestCancelKeepingScratch ==
    /\ ingest.pc \in {"extract", "files"}
    /\ ingest' = [ingest EXCEPT !.pc = "cancelled"]
    /\ scratch' = scratch
    /\ runs' = Append(runs, Ended(ingest'))
    /\ UNCHANGED nonIngest

\* cancellation of the background task releases the scratch area
IngestCancel ==
    /\ ingest.pc \in {"extract", "files"}
    /\ ingest' = [ingest EXCEPT !.pc = "cancelled"]
    /\ scratch' = {}
    /\ runs' = Append(runs, Ended(ingest'))
    /\ UNCHANGED nonIngest

NextIngest ==
    \/ IngestBegin
    \/ IngestExtract
    \/ IngestFile
    \/ IngestEnd
    \/ IngestCancel

(***************************************************************************)
(* One specification per page: the page under study is mounted, the other  *)
(* pages rest in their initial state.                                      *)
(***************************************************************************)
InitCompare ==
    /\ CompareInit /\ QueryInitN(1) /\ DocsInit
    /\ VersionsInitN(1, <<V2, V1>>) /\ UploadInit /\ StoreInit /\ IngestInit

SpecCompare == InitCompare /\ [][NextCompare]_vars

InitQuery ==
    /\ QueryInit /\ CompareInitN(1) /\ DocsInit
    /\ VersionsInitN(1, <<V2, V1>>) /\ UploadInit /\ StoreInit /\ IngestInit

SpecQuery == InitQuery /\ [][NextQuery]_vars

InitDocs ==
    /\ DocsInit /\ CompareInitN(1) /\ QueryInitN(1)
    /\ VersionsInitN(1, <<V2, V1>>) /\ UploadInit /\ StoreInit /\ IngestInit

SpecDocs == InitDocs /\ [][NextDocs]_vars

\* every response that is under way arrives: a response that says a job is
\* over is eventually handed to the callback that awaits it
FairSpecDocs ==
    SpecDocs /\ \A j \in DocsJobIds : WF_vars(DocsPollSettleEnd(j))

\* the backend works on its jobs, the interval fires every second and every
\* request is answered
FairSpecDocsServed ==
    /\ FairSpecDocs
    /\ WF_vars(DocsSubmitSettle) /\ WF_vars(DocsJobStep) /\ WF_vars(DocsJobEnd)
    /\ WF_vars(DocsTick) /\ WF_vars(DocsPollSettle)

InitVersions ==
    /\ VersionsInit /\ CompareInitN(1) /\ QueryInitN(1) /\ DocsInit
    /\ UploadInit /\ StoreInit /\ IngestInit

SpecVersions == InitVersions /\ [][NextVersions]_vars

InitUpload ==
    /\ UploadInit /\ CompareInitN(1) /\ QueryInitN(1) /\ DocsInit
    /\ VersionsInitN(1, <<V2, V1>>) /\ StoreInit /\ IngestInit

SpecUpload == InitUpload /\ [][NextUpload]_vars

InitStore ==
    /\ StoreInit /\ CompareInitN(1) /\ QueryInitN(1) /\ DocsInit
    /\ VersionsInitN(1, <<V2, V1>>) /\ UploadInit /\ IngestInit

SpecStore == InitStore /\ [][NextStore]_vars

SpecIngest == InitStore /\ [][NextIngest]_vars

\* the Version Store under comparisons
NextComparison ==
    \/ ClockTick
    \/ \E c \in Callers : CreateBegin(c)
    \/ \E c \in Callers : CreateIndex(c)
    \/ \E c \in Callers : CreateCommit(c)
    \/ updateStatus
    \/ delete
    \/ compareVersions

SpecComparison == InitStore /\ [][NextComparison]_vars

(***************************************************************************)
(* Properties of the Compare page                                          *)
(***************************************************************************)
CompareRequests ==
    {compareNet[i] : i \in {j \in 1..Len(compareNet) :
                                compareNet[j].url = "/api/query_compare"}}

CompareSubmitCalled == CompareSubmitTooFew \/ CompareSubmit

\* C1: every /api/query_compare request carries at least two distinct
\* version ids (as the backend reads them out of the comma-separated
\* parameter), and a call of submit with fewer than two selected versions
\* sets the error 'Please select at least 2 versions to compare' and sends
\* no request.
C1_CompareRequestsCarryTwoVersions ==
    /\ [](\A r \in CompareRequests :
            /\ Cardinality(Range(split(r.version_ids))) >= 2
            /\ Cardinality(Range(split(r.version_ids))) = Len(split(r.version_ids)))
    /\ [][(CompareSubmitCalled /\ Len(compare.selectedVersions) < 2)
            => /\ compare'.error = Str("Please select at least 2 versions to compare")
               /\ UNCHANGED compareNet]_vars

\* a comparison request is in flight, and a later submit with one version
\* left selected has been refused
C1_Witness ==
    /\ CompareRequests # {}
    /\ Len(compare.selectedVersions) = 1
    /\ compare.error = Str("Please select at least 2 versions to compare")


(***************************************************************************)
(* Properties of the Query page                                            *)
(***************************************************************************)
QueryRequests ==
    {queryNet[i] : i \in {j \in 1..Len(queryNet) : queryNet[j].url = "/api/query"}}

\* this step sends a request
QuerySends == Len(queryNet') = Len(queryNet) + 1

\* C3: every /api/query request carries version_id equal to the id of the
\* version selected when it is sent, and no version_id parameter at all
\* when no version is selected.
C3_QueryCarriesSelectedVersion ==
    [][QuerySends =>
        LET r == queryNet'[Len(queryNet')]
        IN  /\ r.url = "/api/query"
            /\ IF truthy(query.selectedVersion)
               THEN /\ "version_id" \in DOMAIN r.params
                    /\ r.params.version_id = query.selectedVersion.version_id
               ELSE "version_id" \notin DOMAIN r.params]_vars

\* a request for the version that was picked with the keyboard is in flight
C3_Witness ==
    /\ truthy(query.selectedVersion)
    /\ query.highlightedIndex >= 1
    /\ \E r \in QueryRequests :
           /\ "version_id" \in DOMAIN r.params
           /\ r.params.version_id = query.selectedVersion.version_id

\* C6: the Query page issues a /api/query request only when the question
\* has at least 1 and at most 1000 characters, by the button or by
\* Ctrl/Cmd+Enter.
C6_QueryLengthChecked ==
    \A r \in QueryRequests :
        Len(r.params.q) >= 1 /\ Len(r.params.q) <= MaxQueryLen


(***************************************************************************)
(* Properties of the Docs page                                             *)
(***************************************************************************)
\* a response that ends the polling of job j is under way to its callback
DocsEndReported(j) ==
    /\ j \in docsIntervals
    /\ \E r \in BagToSet(docsNet) : DocsEnds(r, j)

DocsPollingStopped(j) ==
    /\ j \notin docsIntervals
    /\ ~docs.loading
    /\ docs.result # null \/ docs.error # null

\* C2: once the backend reports 'completed' or 'error' for a polled job, or
\* a progress request of it fails, polling of the job eventually stops (its
\* interval is cleared, so no further progress request is issued) and
\* loading is false with result or error set.
C2_PollingEventuallyStops ==
    \A j \in DocsJobIds : DocsEndReported(j) ~> DocsPollingStopped(j)

\* the polling of a job has ended on a 'completed' report
C2_Witness ==
    /\ docsIntervals = {}
    /\ Len(docsJobs) >= 1
    /\ docsNet = EmptyBag
    /\ ~docs.loading
    /\ docs.success = Str("Documentation generated!")
    /\ docs.result = [documentation |-> "job"]


(***************************************************************************)
(* Properties of the Versions page                                         *)
(***************************************************************************)
DeleteRequests ==
    {versionsNet[i] : i \in {j \in 1..Len(versionsNet) :
                                 versionsNet[j].method = "DELETE"}}

\* this step sends a DELETE request
DeleteSends ==
    /\ Len(versionsNet') = Len(versionsNet) + 1
    /\ versionsNet'[Len(versionsNet')].method = "DELETE"

\* C4: a DELETE /api/versions/{id} request is issued only by the Delete
\* button of the open confirmation dialog and only for the version the
\* dialog holds; a click on a card's delete button, and a cancel, issue no
\* request and leave the displayed list and the backend's list unchanged.
C4_DeleteOnlyAfterConfirm ==
    /\ [][DeleteSends =>
            /\ handleDeleteConfirm
            /\ versions.isDeleteOpen
            /\ versions.confirmDeleteVersion # null
            /\ versionsNet'[Len(versionsNet')].url =
                   <<"/api/versions/", versions.confirmDeleteVersion.version_id>>]_vars
    /\ [][(handleDeleteClick \/ handleDeleteCancel) =>
            /\ UNCHANGED <<versionsNet, serverVersions>>
            /\ versions'.versions = versions.versions]_vars

\* the deletion of the second listed version has been confirmed and its
\* request is in flight
C4_Witness ==
    /\ Len(versions.versions) = 2
    /\ versions.deletingVersionId = versions.versions[2].version_id
    /\ \E r \in DeleteRequests :
           r.url = <<"/api/versions/", versions.versions[2].version_id>>


(***************************************************************************)
(* Properties of the Upload page                                           *)
(***************************************************************************)
UploadRequests == {uploadNet[i] : i \in 1..Len(uploadNet)}

\* C5: every /api/ingest_versioned request of the Upload page carries a
\* file whose name ends in '.zip' and whose size is at most 100MB, dropped
\* or picked.
C5_UploadFileValidated ==
    \A r \in UploadRequests :
        /\ endsWith(r.file.name, <<".", "z", "i", "p">>)
        /\ r.file.size <= MaxUploadBytes

(***************************************************************************)
(* Properties of the Version Store and the Query Engine                    *)
(***************************************************************************)
IsActive(v) == v.status = "active"

ActiveVersions == Range(SelectSeq(registry, IsActive))

\* C7: whatever createVersion, updateStatus and delete have made of the
\* registry, resolveLatest returns an active version whose upload timestamp
\* no other active version exceeds, returns null when there is no version
\* (none at all, or none active), and returns what it would return if the
\* archived and deleted versions were not there.
C7_ResolveLatestIsNewestActive ==
    LET latest == resolveLatest(registry)
    IN  /\ registry = <<>> => latest = null
        /\ ActiveVersions = {} => latest = null
        /\ ActiveVersions # {} =>
               /\ latest \in ActiveVersions
               /\ \A v \in ActiveVersions :
                      v.upload_timestamp <= latest.upload_timestamp
        /\ latest = resolveLatest(SelectSeq(registry, IsActive))

\* a query without version id has been resolved to the latest version while
\* a newer version that is not active is registered
C7_Witness ==
    /\ engine.pc = "retrieve"
    /\ engine.requested = nullString
    /\ resolveLatest(registry) # null
    /\ engine.version_id = resolveLatest(registry).version_id
    /\ \E i \in 1..Len(registry) :
           /\ registry[i].status # "active"
           /\ registry[i].upload_timestamp
                  > resolveLatest(registry).upload_timestamp

\* the chunks stored under a version id, in the index storage ix
ChunksOf(ix, id) ==
    IF \E i \in 1..Len(ix) : ix[i].version_id = id
    THEN ix[CHOOSE i \in 1..Len(ix) : ix[i].version_id = id].chunks
    ELSE <<>>

\* C8: every ingestion that completes adds a version of its own to the
\* registry; every registered version has an index that holds exactly the
\* chunks of its archive, none missing, none added, and not empty; and a
\* delete leaves the chunks of every version that remains as they were.
C8_EachIngestionItsOwnCompleteIndex ==
    /\ [](\A i \in 1..Len(registry) :
            /\ registry[i].version_id \in IndexIds
            /\ ChunksOf(indexes, registry[i].version_id) \in Archives
            /\ Len(ChunksOf(indexes, registry[i].version_id))
                   = registry[i].chunk_count
            /\ registry[i].chunk_count > 0)
    /\ [][\A c \in Callers :
            (creates[c].pc = "commit" /\ creates'[c].pc = "idle")
                => Len(registry') = Len(registry) + 1]_vars
    /\ [][Len(registry') < Len(registry) =>
            \A i \in 1..Len(registry') :
                ChunksOf(indexes', registry'[i].version_id)
                    = ChunksOf(indexes, registry'[i].version_id)]_vars

\* the version ids that are registered, stored or being created
IdsInUse ==
    RegistryIds \cup IndexIds \cup {creates[c].version_id : c \in CreatesUnderWay}

\* C9: the version id a createVersion call generates is the id of no other
\* call (not of a call under way, not of a version registered or stored);
\* no call writes its chunks into an index that exists, and no call writes
\* its record over a registry entry.
C9_VersionIdsDistinct ==
    /\ [][\A c \in Callers :
            (creates[c].pc = "idle" /\ creates'[c].pc = "index")
                => creates'[c].version_id \notin IdsInUse]_vars
    /\ [][\A c \in Callers :
            (creates[c].pc = "index" /\ creates'[c].pc = "commit")
                => creates[c].version_id \notin IndexIds]_vars
    /\ [][\A c \in Callers :
            (creates[c].pc = "commit" /\ creates'[c].pc = "idle")
                => creates[c].version_id \notin RegistryIds]_vars

\* the query names a version id that is not registered, or is registered
\* with status deleted
QueryMisses ==
    /\ engine.pc = "resolve"
    /\ engine.requested # nullString
    /\ ~\E i \in 1..Len(registry) :
           /\ registry[i].version_id = engine.requested
           /\ registry[i].status # "deleted"

\* C10: a query that names a version id which does not exist, or whose
\* status is deleted, fails with NotFound, and a query that failed with
\* NotFound has made no similarity search and no call of the generative
\* model.
C10_MissingVersionNotFound ==
    /\ [][(QueryMisses /\ engine' # engine) =>
            /\ engine'.pc = "failed"
            /\ engine'.error = "NotFound"
            /\ engine'.searches = 0
            /\ engine'.completions = 0]_vars
    /\ [](engine.error = "NotFound" =>
            /\ engine.pc = "failed"
            /\ engine.searches = 0
            /\ engine.completions = 0)

\* a query for a registered version whose status is deleted has failed with
\* NotFound
C10_Witness ==
    /\ engine.pc = "failed"
    /\ engine.error = "NotFound"
    /\ \E i \in 1..Len(registry) :
           /\ registry[i].version_id = engine.requested
           /\ registry[i].status = "deleted"

IndexesOf(id) == {i \in 1..Len(indexes) : indexes[i].version_id = id}

\* C12: a createVersion whose index creation cannot be persisted ends without
\* a change of the registry; in every state each registry entry has exactly
\* one vector index, and no index exists without a registry entry
C12_RegistryAndIndexesCorrespond ==
    /\ [][\A c \in Callers :
              (creates[c].pc = "index" /\ creates'[c].pc = "idle") =>
                  registry' = registry]_vars
    /\ [](\A id \in RegistryIds : Cardinality(IndexesOf(id)) = 1)
    /\ [](IndexIds \subseteq RegistryIds)

\* C13: a comparison of N >= 2 version ids returns N result entries, the
\* i-th for the i-th id asked, and the total count N; a version whose pipeline
\* failed has its error on its own entry and the others have their answers
C13_ComparisonOneEntryPerVersion ==
    (comparison # null /\ Len(comparison.requested) >= 2) =>
        /\ "error" \notin DOMAIN comparison
        /\ Len(comparison.comparison_results) = Len(comparison.requested)
        /\ comparison.total_versions = Len(comparison.requested)
        /\ \A i \in 1..Len(comparison.requested) :
               LET entry == comparison.comparison_results[i]
               IN  /\ entry.version_id = comparison.requested[i]
                   /\ ("error" \in DOMAIN entry) # ("answer" \in DOMAIN entry)

\* three versions compared: one unknown, one answered, one failed or answered
C13_Witness ==
    /\ comparison # null
    /\ Len(comparison.requested) = 3
    /\ "comparison_results" \in DOMAIN comparison
    /\ comparison.comparison_results[2].error = "NotFound"
    /\ "answer" \in DOMAIN comparison.comparison_results[3]

\* the legacy runs that completed, by their position in the log
LegacyRuns ==
    {i \in 1..Len(runs) : runs[i].mode = "legacy" /\ runs[i].pc = "completed"}

\* C14: a legacy ingestion of an archive that a legacy ingestion completed
\* before chunks no file whose content hash the earlier pass ingested; a
\* versioned ingestion skips no file as a duplicate
C14_SecondLegacyPassSkipsIngestedFiles ==
    /\ \A i \in LegacyRuns : \A j \in LegacyRuns :
           (i < j /\ runs[i].archive = runs[j].archive) =>
               runs[i].seen \cap runs[j].seen = {}
    /\ \A j \in 1..Len(runs) :
           runs[j].mode = "versioned" => runs[j].duplicates = {}

\* C15: no chunk of any ingestion is longer than the configured maximum,
\* whatever strategy produced it
C15_NoChunkOverMaximum ==
    ingest.pc # "idle" =>
        \A i \in 1..Len(ingest.chunks) :
            Len(ingest.chunks[i].text) <= ChunkSize

\* C16: whenever no ingestion is under way (none began, or the last one
\* completed, failed or was cancelled) the scratch area is gone
C16_ScratchRemovedOnEveryExit ==
    ingest.pc \in {"idle", "completed", "error", "cancelled"} => scratch = {}

\* an ingestion cancelled after its archive was extracted, after a run that
\* completed or failed
C16_Witness ==
    /\ ingest.pc = "cancelled"
    /\ ingest.files # <<>>
    /\ scratch = {}
    /\ \E i \in 1..Len(runs) : runs[i].pc \in {"completed", "error"}

\* C17: while the Query page shows the error of a failed query it shows
\* no answer, no sources, no version info and no success message
C17_FailedQueryShowsOnlyError ==
    query.error # null =>
        /\ query.answer = ""
        /\ query.sources = <<>>
        /\ query.versionInfo = null
        /\ query.success = null

\* a query has failed: the error is shown and nothing is loading
C17_Witness ==
    /\ query.error # null
    /\ ~query.loading
    /\ query.q # <<>>

\* C18: a non-OK response to an API call of a page sets the page's error
\* message and shows nothing of its body; on the Docs page, for the answer
\* to a progress poll: the error is set and the progress shown stays as it was
C18_NonOkResponseSetsError ==
    [][\A r \in BagToSet(docsNet) :
          (/\ r.url = "/api/documentation_progress"
           /\ ~r.throws
           /\ r.progress = DocsNotOkBody
           /\ docsNet' = docsNet (-) SetToBag({r})) =>
              /\ docs'.error # null
              /\ docs'.uploadProgress \in {null, docs.uploadProgress}
              /\ docs'.result = docs.result
              /\ docs'.success = docs.success]_vars

\* C19: a loading flag that an action of a page has set is reset once the
\* action has settled; on the Docs page: whenever loading is true it is
\* false again later
C19_LoadingFlagIsReset == docs.loading ~> ~docs.loading

\* C20: the request an upload sends carries a version_name that is not
\* empty: the name typed at that moment if there is one, else 'v' and the
\* 19 characters of the timestamp
C20_UploadCarriesVersionName ==
    [][Len(uploadNet') > Len(uploadNet) =>
          LET sent == uploadNet'[Len(uploadNet')].version_name
          IN  /\ sent # <<>>
              /\ upload.versionName # <<>> => sent = upload.versionName
              /\ upload.versionName = <<>> =>
                     (Head(sent) = "v" /\ Len(sent) = 20)]_vars

\* an upload under way that was sent with no name typed
C20_Witness ==
    \E i \in 1..Len(uploadNet) :
        /\ Len(uploadNet[i].version_name) = 20
        /\ upload.versionName = <<>>
        /\ upload.loading

\* C21: in the version dropdown of the Compare page the highlighted index
\* is -1 or the index of an option of the filtered list, also when that list
\* is empty; Enter toggles the highlighted option and nothing else, and
\* changes nothing when no option is highlighted
C21_HighlightedIndexIsAnOption ==
    /\ [](\/ compare.highlightedIndex = -1
           \/ compare.highlightedIndex \in 0..(Len(CompareFilteredVersions) - 1))
    /\ [][CompareEnter =>
             IF compare.highlightedIndex \in 0..(Len(CompareFilteredVersions) - 1)
             THEN compare' = [compare EXCEPT !.selectedVersions = toggled(@,
                      CompareFilteredVersions[compare.highlightedIndex + 1].version_id)]
             ELSE compare' = compare]_vars

\* the ids a version of the page's list can have
CompareListedIds ==
    {compare.versions[i].version_id : i \in 1..Len(compare.versions)}

\* C22: the selected versions of the Compare page never hold an id twice;
\* toggling an id adds it when absent and removes it when present, so two
\* toggles of one id give the same set of ids back; remove takes out the
\* given id alone and clear empties the list
C22_SelectionIsASet ==
    /\ [](Cardinality(Range(compare.selectedVersions))
              = Len(compare.selectedVersions))
    /\ [](\A id \in CompareListedIds :
            LET once == toggled(compare.selectedVersions, id)
            IN  /\ idIncludes(once, id) # idIncludes(compare.selectedVersions, id)
                /\ Range(toggled(once, id)) = Range(compare.selectedVersions))
    /\ [][removeVersion =>
             \E id \in Range(compare.selectedVersions) :
                 Range(compare'.selectedVersions)
                     = Range(compare.selectedVersions) \ {id}]_vars
    /\ [][clearSelection => compare'.selectedVersions = <<>>]_vars

\* two versions are selected, in the order of the clicks and not of the list
C22_Witness ==
    /\ Len(compare.selectedVersions) = 2
    /\ Len(compare.versions) = 2
    /\ compare.selectedVersions[1] = compare.versions[2].version_id

\* C23: whenever the progress panel of the Docs page is shown and its
\* progress has 0 <= completed <= total, a total of 0 included, the
\* percentage it displays is an integer from 0 to 100
C23_PercentageWithinRange ==
    (/\ docs.uploadProgress # null
     /\ 0 <= docs.uploadProgress.completed
     /\ docs.uploadProgress.completed <= docs.uploadProgress.total)
        => percentage(docs.uploadProgress) \in 0..100

\* the Docs page has handled a 'completed' or an 'error' progress response
\* and no submit has followed: submit clears result and error
DocsEndHandled ==
    \/ docs.result = [documentation |-> "job"]
    \/ docs.error = Str("Documentation generation failed")

\* C24: from the handling of a 'completed' or 'error' progress response to
\* the next submit uploadProgress is null, so no completed count is shown
\* again, also when responses of earlier progress requests arrive later
C24_ProgressStaysClearedAfterEnd ==
    DocsEndHandled => docs.uploadProgress = null

\* C25: the Docs page polls at most one job at a time: while the interval
\* of a job runs loading is true, loading falls only in the handling of a
\* response, and submit does not start while loading is true
C25_OneJobPolledAtATime ==
    /\ [](Cardinality(docsIntervals) <= 1)
    /\ [](docsIntervals # {} => docs.loading)
    /\ [][(docs.loading /\ ~docs'.loading)
             => DocsSubmitSettle \/ DocsPollSettle]_vars
    /\ [][DocsSubmit => ~docs.loading /\ docsIntervals = {}]_vars

\* C26: on the Versions page, once every request has settled and the last
\* load has succeeded, loading is false and the list shows no version that
\* a successful deletion has removed at the backend, also when a refresh was
\* in flight at the deletion and is answered after the reload that follows it
C26_DeletedVersionNotListed ==
    (Len(versionsNet) = 0 /\ versions.error = null)
        => /\ ~versions.loading
           /\ \A i \in 1..Len(versions.versions) :
                  ServerHas(versions.versions[i].version_id)

============================================================================
